---- MODULE Spec2Model ----
(***************************************************************************)
(* Internship Selection & Onboarding Platform (src/app2.py).               *)
(*                                                                         *)
(* The Streamlit script is modelled as a state machine over its session    *)
(* state (df, shortlisted, rejected, remarks, contact_status,              *)
(* interview_scheduled, ratings).  Every widget handler is one action: it  *)
(* mutates the session state; Page is what a run of the script renders on  *)
(* the session state it finds (every handler ends the run, and the next    *)
(* run draws the page again).  subset and notice record what the last      *)
(* handler looped over and the message call it made.                       *)
(*                                                                         *)
(* Strings are TLA+ strings; Python's `x in s` on strings is the character *)
(* level substring search StrIn.  A dict is a function whose DOMAIN is the *)
(* dict's key set.  A formatted percentage "33.3%" is the integer 333      *)
(* (tenths of a percent).                                                  *)
(***************************************************************************)
EXTENDS Integers, Sequences, FiniteSets, TLC

VARIABLES
    df,                  \* st.session_state.df: NoneDF or a DataFrame
    shortlisted,         \* st.session_state.shortlisted: set of ids
    rejected,            \* st.session_state.rejected: set of ids
    remarks,             \* st.session_state.remarks: id -> list of entries
    contact_status,      \* st.session_state.contact_status: id -> string
    interview_scheduled, \* st.session_state.interview_scheduled: id -> date
    ratings,             \* st.session_state.ratings: id -> 0..5
    subset,              \* the ids the last handler looped over (history)
    notice,              \* the st.success/warning/info/error call of the last handler
    last,                \* the handler that ran last (history)
    prev,                \* the handler before it, if a sequence claim names it (history)
    ops                  \* handlers run since the dataset was installed

vars == <<df, shortlisted, rejected, remarks, contact_status,
          interview_scheduled, ratings, subset, notice, last, prev, ops>>

(***************************************************************************)
(* Bounds of the model.                                                    *)
(***************************************************************************)
MaxOps == 3         \* handlers run against one dataset
MaxRemarks == 2     \* remarks kept per candidate

(***************************************************************************)
(* Python values.                                                          *)
(***************************************************************************)
NoneDF == [kind |-> "None"]
DataFrame(rows) == [kind |-> "DataFrame", rows |-> rows]
EmptyDict == [k \in {} |-> 0]
DictSet(d, k, v) == [x \in (DOMAIN d) \cup {k} |-> IF x = k THEN v ELSE d[x]]
DictDel(d, k) == [x \in (DOMAIN d) \ {k} |-> d[x]]
DictGet(d, k, default) == IF k \in DOMAIN d THEN d[k] ELSE default

\* Python `needle in s` for two strings
StrIn(needle, s) ==
    \E i \in 0..(Len(s) - Len(needle)) : SubSeq(s, i + 1, i + Len(needle)) = needle

\* str.strip() of the remark texts the model enters: the characters left
\* after removing leading and trailing blanks
RECURSIVE LStrip(_)
LStrip(s) == IF Len(s) > 0 /\ SubSeq(s, 1, 1) = " " THEN LStrip(SubSeq(s, 2, Len(s))) ELSE s
RECURSIVE RStrip(_)
RStrip(s) == IF Len(s) > 0 /\ SubSeq(s, Len(s), Len(s)) = " " THEN RStrip(SubSeq(s, 1, Len(s) - 1)) ELSE s
Strip(s) == RStrip(LStrip(s))

(***************************************************************************)
(* The uploaded files.  A file is either malformed or a table of rows; the *)
(* rows carry the columns the script reads.                                *)
(***************************************************************************)
Row(name, gender, qual, laptop, phone, hours, birth, submitted, district, itype) ==
    [ name |-> name, gender |-> gender, qualification |-> qual,
      laptop |-> laptop, smartphone |-> phone, availability |-> hours,
      age_str |-> birth, submission_date |-> submitted,
      district |-> district, internship_type |-> itype ]

Roster ==
    << Row("Asha", "Female", "Engineer", "Yes", "Yes", "Full Time",
           "15-03-2000", "2024-01-03", "Pune", "Project"),
       Row("Ravi", "Male", "High School", "No", "Yes", "Part Time",
           "", "2024-01-01", "Nashik", "Regular"),
       Row("Meena", "Female", "Graduate", "Yes", "No", "Full Time",
           "31-12-2005", "2024-01-02", "Pune", "Regular"),
       Row("Kiran", "Male", "Diploma", "Yes", "Yes", "Part Time",
           "31-02-2001", "2024-01-04", "Nashik", "Project") >>

\* a row of a file that has a column named Status of its own
WithStatusColumn(row, value) ==
    [c \in (DOMAIN row) \cup {"Status"} |-> IF c = "Status" THEN value ELSE row[c]]

\* a file that does not parse, a table with a header and no rows, and
\* tables with rows
Files ==
    { [ok |-> FALSE, rows |-> << >>],
      [ok |-> TRUE, rows |-> << >>],
      [ok |-> TRUE, rows |-> << Roster[1], Roster[2] >>],
      [ok |-> TRUE, rows |-> << Roster[3] >>],
      [ok |-> TRUE, rows |-> << Roster[4] >>],
      [ok |-> TRUE, rows |-> << WithStatusColumn(Roster[3], "Applied") >>] }

load_data_OneBased(file) ==
    IF file.ok
    THEN DataFrame([i \in 1..Len(file.rows) |->
                      [c \in (DOMAIN file.rows[i]) \cup {"ID"} |->
                          IF c = "ID" THEN i ELSE file.rows[i][c]]])
    ELSE NoneDF
\* load_data: parse the file and number the rows 0..n-1; None when it fails
load_data(file) ==
    IF file.ok
    THEN DataFrame([i \in 1..Len(file.rows) |->
                      [c \in (DOMAIN file.rows[i]) \cup {"ID"} |->
                          IF c = "ID" THEN i - 1 ELSE file.rows[i][c]]])
    ELSE NoneDF

len(d) == Len(d.rows)
IDs(d) == { d.rows[i].ID : i \in 1..Len(d.rows) }

(***************************************************************************)
(* Helper functions (src/app2.py:136-242).                                 *)
(***************************************************************************)
Digits == <<"0", "1", "2", "3", "4", "5", "6", "7", "8", "9">>
IsDigit(c) == \E d \in 1..10 : Digits[d] = c
DigitVal(c) == (CHOOSE d \in 1..10 : Digits[d] = c) - 1
AllDigits(s) == \A i \in 1..Len(s) : IsDigit(SubSeq(s, i, i))
RECURSIVE ToInt(_)
ToInt(s) ==
    IF Len(s) = 0 THEN 0
    ELSE 10 * ToInt(SubSeq(s, 1, Len(s) - 1)) + DigitVal(SubSeq(s, Len(s), Len(s)))
\* str(n) for the small non-negative numbers of the model
RECURSIVE ToStr(_)
ToStr(n) == IF n < 10 THEN Digits[n + 1] ELSE ToStr(n \div 10) \o Digits[(n % 10) + 1]

IsLeap(y) == (y % 4 = 0 /\ y % 100 # 0) \/ y % 400 = 0
DaysIn(m, y) ==
    IF m = 2 THEN (IF IsLeap(y) THEN 29 ELSE 28)
    ELSE IF m \in {4, 6, 9, 11} THEN 30 ELSE 31

NoDate == [year |-> 0, month |-> 0, day |-> 0]    \* NaT
\* pd.to_datetime(s, format='%d-%m-%Y', errors='coerce') on "dd-mm-yyyy" text
to_datetime(s) ==
    IF /\ Len(s) = 10
       /\ SubSeq(s, 3, 3) = "-" /\ SubSeq(s, 6, 6) = "-"
       /\ AllDigits(SubSeq(s, 1, 2)) /\ AllDigits(SubSeq(s, 4, 5))
       /\ AllDigits(SubSeq(s, 7, 10))
    THEN LET d == ToInt(SubSeq(s, 1, 2))
             m == ToInt(SubSeq(s, 4, 5))
             y == ToInt(SubSeq(s, 7, 10))
         IN IF m \in 1..12 /\ y >= 1 /\ d >= 1 /\ d <= DaysIn(m, y)
            THEN [year |-> y, month |-> m, day |-> d]
            ELSE NoDate
    ELSE NoDate

\* Python None as the result of calculate_age: outside every age that two
\* four-digit years can give
NoAge == 0 - 10000
\* datetime.now() as the script may observe it
Todays == { [year |-> 2024, month |-> 3, day |-> 14],
            [year |-> 2024, month |-> 3, day |-> 15] }

\* (a1, a2) < (b1, b2) on Python tuples
TupleLess(a1, a2, b1, b2) == a1 < b1 \/ (a1 = b1 /\ a2 < b2)

calculate_age_IgnoresBirthday(age_str, today) ==
    IF age_str = "" THEN NoAge
    ELSE LET birth_date == to_datetime(age_str)
         IN IF birth_date = NoDate THEN NoAge
            ELSE today.year - birth_date.year
calculate_age(age_str, today) ==
    IF age_str = "" THEN NoAge
    ELSE LET birth_date == to_datetime(age_str)
         IN IF birth_date = NoDate THEN NoAge
            ELSE today.year - birth_date.year
                 - (IF TupleLess(today.month, today.day,
                                 birth_date.month, birth_date.day) THEN 1 ELSE 0)

\* to_datetime over the birth-date cells of the uploaded files, computed once
BirthDateOf == [s \in { Roster[i].age_str : i \in 1..Len(Roster) } |-> to_datetime(s)]

\* calculate_age over the birth-date cells of the uploaded files, computed once
AgeOf ==
    [s \in { Roster[i].age_str : i \in 1..Len(Roster) } |->
        [t \in Todays |-> calculate_age(s, t)]]

get_status(row_id, sl, rj) ==
    IF row_id \in sl THEN "Shortlisted"
    ELSE IF row_id \in rj THEN "Rejected"
    ELSE "Pending"

get_contact_status(row_id, cs) == DictGet(cs, row_id, "Not Contacted")

get_remarks(row_id, rm) == DictGet(rm, row_id, << >>)

\* st.session_state.ratings.get(row_id, 0)
get_rating(row_id, rt) == DictGet(rt, row_id, 0)

add_remark_Prepends(rm, row_id, remark, now) ==
    LET rm1 == IF row_id \notin DOMAIN rm THEN DictSet(rm, row_id, << >>) ELSE rm
    IN DictSet(rm1, row_id, <<[timestamp |-> now, remark |-> remark]>> \o rm1[row_id])
\* add_remark: create the list on first use, append the entry at the end
add_remark(rm, row_id, remark, now) ==
    LET rm1 == IF row_id \notin DOMAIN rm THEN DictSet(rm, row_id, << >>) ELSE rm
    IN DictSet(rm1, row_id, Append(rm1[row_id], [timestamp |-> now, remark |-> remark]))

\* str.lower() on the letters A-Z
UpperCase == "ABCDEFGHIJKLMNOPQRSTUVWXYZ"
LowerCase == "abcdefghijklmnopqrstuvwxyz"
LowerChar(c) ==
    IF \E i \in 1..Len(UpperCase) : SubSeq(UpperCase, i, i) = c
    THEN LET i == CHOOSE j \in 1..Len(UpperCase) : SubSeq(UpperCase, j, j) = c
         IN SubSeq(LowerCase, i, i)
    ELSE c
RECURSIVE Lower(_)
Lower(s) == IF Len(s) = 0 THEN "" ELSE LowerChar(SubSeq(s, 1, 1)) \o Lower(SubSeq(s, 2, Len(s)))

\* DataFrame.astype(str) of one cell: a missing cell reads "nan"
CellStr(row, c) ==
    IF c = "ID" THEN ToStr(row[c])
    ELSE IF row[c] = "" THEN "nan" ELSE row[c]

\* x.str.contains(term, case=False) on a stringified cell, for a term
\* without regular-expression characters
str_contains(cell, term) == StrIn(Lower(term), Lower(cell))

\* str_contains over the cells of the uploaded files and the search terms
\* the model enters, computed once
SearchTerms == { "RAVI" }
AllCells ==
    UNION { UNION { { CellStr(load_data(f).rows[i], c) : c \in DOMAIN load_data(f).rows[i] } :
                    i \in 1..Len(f.rows) } : f \in { g \in Files : g.ok } }
CellsContaining == [term \in SearchTerms |-> { cell \in AllCells : str_contains(cell, term) }]

\* the filter dictionary built from the sidebar widgets; 0 is "no bound"
Filters(search, gender, qual, itype, district, laptop, phone, hours, min_age, max_age, view_mode, contact, interview) ==
    [ search |-> search, gender |-> gender, qualification |-> qual,
      internship_type |-> itype, district |-> district, laptop |-> laptop,
      smartphone |-> phone, availability |-> hours, min_age |-> min_age,
      max_age |-> max_age, view_mode |-> view_mode, contact_status |-> contact,
      interview_status |-> interview ]

NoFilters ==
    Filters("", "All", "All", "All", "All", "All", "All", "All", 0, 0,
            "All Applications", "All", "All")

\* the age filter of apply_filters: the Age column is calculate_age of the
\* birth-date cell, and a comparison with a missing age (None/NaN) is False
age_filter_KeepsMissing(rows, filters, today) ==
    LET Age(r) == AgeOf[r.age_str][today]
        MinAge(r) == Age(r) = NoAge \/ Age(r) >= filters.min_age
        MaxAge(r) == Age(r) = NoAge \/ Age(r) <= filters.max_age
        Narrow(cond, frame, Mask(_)) == IF cond THEN SelectSeq(frame, Mask) ELSE frame
    IN Narrow(filters.max_age # 0, Narrow(filters.min_age # 0, rows, MinAge), MaxAge)
age_filter(rows, filters, today) ==
    LET Age(r) == AgeOf[r.age_str][today]
        MinAge(r) == Age(r) # NoAge /\ Age(r) >= filters.min_age
        MaxAge(r) == Age(r) # NoAge /\ Age(r) <= filters.max_age
        Narrow(cond, frame, Mask(_)) == IF cond THEN SelectSeq(frame, Mask) ELSE frame
    IN Narrow(filters.max_age # 0, Narrow(filters.min_age # 0, rows, MinAge), MaxAge)

\* the view mode filter of apply_filters
view_mode_filter_PendingKeepsRejected(rows, filters, sl, rj) ==
    LET IsShortlisted(r) == r.ID \in sl
        IsRejected(r) == r.ID \in rj
        IsPending(r) == r.ID \notin sl
        ViewModeMask(r) ==
            IF filters.view_mode = "Shortlisted" THEN IsShortlisted(r)
            ELSE IF filters.view_mode = "Rejected" THEN IsRejected(r)
            ELSE IF filters.view_mode = "Pending" THEN IsPending(r)
            ELSE TRUE
    IN SelectSeq(rows, ViewModeMask)
view_mode_filter_RejectedIsNotShortlisted(rows, filters, sl, rj) ==
    LET IsShortlisted(r) == r.ID \in sl
        IsRejected(r) == r.ID \notin sl
        IsPending(r) == r.ID \notin sl /\ r.ID \notin rj
        ViewModeMask(r) ==
            IF filters.view_mode = "Shortlisted" THEN IsShortlisted(r)
            ELSE IF filters.view_mode = "Rejected" THEN IsRejected(r)
            ELSE IF filters.view_mode = "Pending" THEN IsPending(r)
            ELSE TRUE
    IN SelectSeq(rows, ViewModeMask)
view_mode_filter(rows, filters, sl, rj) ==
    LET IsShortlisted(r) == r.ID \in sl
        IsRejected(r) == r.ID \in rj
        IsPending(r) == r.ID \notin sl /\ r.ID \notin rj
        ViewModeMask(r) ==
            IF filters.view_mode = "Shortlisted" THEN IsShortlisted(r)
            ELSE IF filters.view_mode = "Rejected" THEN IsRejected(r)
            ELSE IF filters.view_mode = "Pending" THEN IsPending(r)
            ELSE TRUE
    IN SelectSeq(rows, ViewModeMask)

\* apply_filters: each filter in turn narrows the working copy of df
apply_filters(d, filters, today, sl, rj, cs, isch) ==
    LET Search(r) ==
            \E c \in DOMAIN r : CellStr(r, c) \in CellsContaining[filters.search]
        Gender(r) == r.gender = filters.gender
        Qualification(r) == r.qualification = filters.qualification
        InternshipType(r) == r.internship_type = filters.internship_type
        Laptop(r) == r.laptop = filters.laptop
        Smartphone(r) == r.smartphone = filters.smartphone
        District(r) == r.district = filters.district
        Availability(r) == r.availability = filters.availability
        Contacted(r) == r.ID \in DOMAIN cs
        NotContacted(r) == r.ID \notin DOMAIN cs
        Scheduled(r) == r.ID \in DOMAIN isch
        NotScheduled(r) == r.ID \notin DOMAIN isch
        \* `if cond: filtered_df = filtered_df[mask]`
        Narrow(cond, rows, Mask(_)) == IF cond THEN SelectSeq(rows, Mask) ELSE rows
        ContactMask(r) ==
            IF filters.contact_status = "Contacted" THEN Contacted(r)
            ELSE IF filters.contact_status = "Not Contacted" THEN NotContacted(r)
            ELSE TRUE
        InterviewMask(r) ==
            IF filters.interview_status = "Scheduled" THEN Scheduled(r)
            ELSE IF filters.interview_status = "Not Scheduled" THEN NotScheduled(r)
            ELSE TRUE
        f1 == Narrow(filters.search # "", d.rows, Search)
        f2 == Narrow(filters.gender # "All", f1, Gender)
        f3 == Narrow(filters.qualification # "All", f2, Qualification)
        f4 == Narrow(filters.internship_type # "All", f3, InternshipType)
        f5 == Narrow(filters.laptop # "All", f4, Laptop)
        f6 == Narrow(filters.smartphone # "All", f5, Smartphone)
        f7 == Narrow(filters.district # "All", f6, District)
        f8 == Narrow(filters.availability # "All", f7, Availability)
        f9 == Narrow(filters.contact_status # "All", f8, ContactMask)
        f10 == Narrow(filters.interview_status # "All", f9, InterviewMask)
        f11 == age_filter(f10, filters, today)
    IN view_mode_filter(f11, filters, sl, rj)

\* the ids of a filtered frame
FrameIDs(rows) == { rows[i].ID : i \in 1..Len(rows) }

(***************************************************************************)
(* One run of the script (src/app2.py:293-1134): what it renders.          *)
(***************************************************************************)
\* f"{count/total*100:.1f}%" as tenths of a percent, rounded to nearest
Percent(count, total) == (2000 * count + total) \div (2 * total)

\* dashboard metrics, deltas included; total is not zero here
Metrics_PendingIgnoresRejected(d, sl, rj, cs, isch) ==
    LET pending == len(d) - Cardinality(sl)
    IN [ total |-> len(d),
         shortlisted |-> Cardinality(sl),
         shortlisted_delta |-> Percent(Cardinality(sl), len(d)),
         rejected |-> Cardinality(rj),
         rejected_delta |-> Percent(Cardinality(rj), len(d)),
         pending |-> pending,
         pending_delta |-> Percent(pending, len(d)),
         contacted |-> Cardinality(DOMAIN cs),
         interviews |-> Cardinality(DOMAIN isch) ]
Metrics_ContactedByValue(d, sl, rj, cs, isch) ==
    LET pending == len(d) - Cardinality(sl) - Cardinality(rj)
    IN [ total |-> len(d),
         shortlisted |-> Cardinality(sl),
         shortlisted_delta |-> Percent(Cardinality(sl), len(d)),
         rejected |-> Cardinality(rj),
         rejected_delta |-> Percent(Cardinality(rj), len(d)),
         pending |-> pending,
         pending_delta |-> Percent(pending, len(d)),
         contacted |-> Cardinality({ id \in DOMAIN cs : cs[id] # "Not Contacted" }),
         interviews |-> Cardinality(DOMAIN isch) ]
Metrics(d, sl, rj, cs, isch) ==
    LET pending == len(d) - Cardinality(sl) - Cardinality(rj)
    IN [ total |-> len(d),
         shortlisted |-> Cardinality(sl),
         shortlisted_delta |-> Percent(Cardinality(sl), len(d)),
         rejected |-> Cardinality(rj),
         rejected_delta |-> Percent(Cardinality(rj), len(d)),
         pending |-> pending,
         pending_delta |-> Percent(pending, len(d)),
         contacted |-> Cardinality(DOMAIN cs),
         interviews |-> Cardinality(DOMAIN isch) ]

\* funnel_data['Count']
FunnelCounts_Nested(d, sl, cs, isch) ==
    << len(d), Cardinality(DOMAIN cs), Cardinality((DOMAIN isch) \cap (DOMAIN cs)),
       Cardinality(sl \cap (DOMAIN isch) \cap (DOMAIN cs)) >>
FunnelCounts(d, sl, cs, isch) ==
    << len(d), Cardinality(DOMAIN cs), Cardinality(DOMAIN isch), Cardinality(sl) >>

\* interested = [id for id, status in contact_status.items() if 'Interested' in status]
Interested(cs) == { id \in DOMAIN cs : StrIn("Interested", cs[id]) }

\* follow_ups = [... if 'Follow-up' in status or 'No Answer' in status]
FollowUps(cs) ==
    { id \in DOMAIN cs : StrIn("Follow-up", cs[id]) \/ StrIn("No Answer", cs[id]) }

\* ready_candidates
ReadyCandidates(sl, cs) ==
    { id \in sl : id \in DOMAIN cs /\ StrIn("Interested", cs[id]) }

\* the OVERVIEW and READY FOR ONBOARDING figures of the summary report
SummaryReport(d, sl, rj, cs, isch) ==
    [ total |-> len(d),
      shortlisted |-> Cardinality(sl),
      rejected |-> Cardinality(rj),
      pending |-> len(d) - Cardinality(sl) - Cardinality(rj),
      contacted |-> Cardinality(DOMAIN cs),
      interested |-> Cardinality({ id \in DOMAIN cs : StrIn("Interested", cs[id]) }),
      interviews |-> Cardinality(DOMAIN isch),
      ready |-> Cardinality({ id \in sl :
                   id \in DOMAIN cs /\ StrIn("Interested", cs[id]) }) ]

\* the script from top to bottom: the upload screen while df is None; with a
\* dataset, the metrics row divides by len(df), and a ZeroDivisionError ends
\* the run before anything below it is drawn
Script(d, sl, rj, rm, cs, isch, rt) ==
    IF d = NoneDF THEN [ screen |-> "upload" ]
    ELSE IF len(d) = 0
    THEN [ screen |-> "exception", exception |-> "ZeroDivisionError", total |-> len(d) ]
    ELSE [ screen |-> "dashboard",
           metrics |-> Metrics(d, sl, rj, cs, isch),
           funnel_data |-> FunnelCounts(d, sl, cs, isch),
           interested |-> Interested(cs),
           follow_ups |-> FollowUps(cs),
           ready_candidates |-> ReadyCandidates(sl, cs) ]

(***************************************************************************)
(* Inputs the reviewer can enter.                                          *)
(***************************************************************************)
contact_options ==
    { "Not Contacted", "Called - No Answer", "Called - Interested",
      "Called - Not Interested", "Email Sent", "Follow-up Needed" }
\* the statuses the model picks in the per-candidate selectbox
ContactChoices ==
    { c \in contact_options :
        c \in { "Not Contacted", "Called - Interested", "Called - Not Interested" } }
rating_options == 0..5
\* the ratings the model picks in the per-candidate selectbox
RatingChoices == { r \in rating_options : r \in { 0, 3, 4 } }
InterviewDates == { "2024-03-20", "2024-03-21" }
RemarkTexts == { "Called", " ok ", "", "  " }
Now == "2024-03-14 10:00:00"

\* sidebar settings the bulk handlers are run under
Views ==
    { [filters |-> f, today |-> t] :
        f \in { NoFilters,
                [NoFilters EXCEPT !.view_mode = "Shortlisted"],
                [NoFilters EXCEPT !.view_mode = "Pending"],
                [NoFilters EXCEPT !.gender = "Female"],
                [NoFilters EXCEPT !.contact_status = "Contacted"],
                [NoFilters EXCEPT !.search = "RAVI"],
                [NoFilters EXCEPT !.min_age = 24] },
        t \in Todays }

(***************************************************************************)
(* The state machine.                                                      *)
(***************************************************************************)
NoId == 0 - 1
Op(name, id) == [op |-> name, id |-> id]

\* a message call of a handler: its kind, its text up to the number it
\* formats in, and that number
Notice(kind, text, count) == [kind |-> kind, text |-> text, count |-> count]
NoNotice == Notice("none", "", NoId)
\* the handler looped over ids and made the message call n
Say(ids, n) == subset' = ids /\ notice' = n

\* prev keeps the handlers that the claims about two handlers in a row name
Remembered(o) ==
    IF o.op \in {"load", "upload_new", "shortlist", "reject", "schedule"}
    THEN o ELSE Op("other", NoId)

Init ==
    /\ df = NoneDF
    /\ shortlisted = {}
    /\ rejected = {}
    /\ remarks = EmptyDict
    /\ contact_status = EmptyDict
    /\ interview_scheduled = EmptyDict
    /\ ratings = EmptyDict
    /\ subset = {}
    /\ notice = NoNotice
    /\ last = Op("init", NoId)
    /\ prev = Op("init", NoId)
    /\ ops = 0

\* a handler below the metrics row runs only in a run that got that far
Reached == df # NoneDF /\ len(df) > 0

\* the handler stored these values and called st.rerun()
Rerun(op, ndf, nsl, nrj, nrm, ncs, nis, nrt) ==
    /\ df' = ndf
    /\ shortlisted' = nsl
    /\ rejected' = nrj
    /\ remarks' = nrm
    /\ contact_status' = ncs
    /\ interview_scheduled' = nis
    /\ ratings' = nrt
    /\ last' = op
    /\ prev' = Remembered(last)

\* the file upload block
Load ==
    /\ df = NoneDF
    /\ \E file \in Files :
         LET ndf == load_data(file)
         IN IF ndf # NoneDF
            THEN /\ Rerun(Op("load", NoId), ndf, shortlisted, rejected, remarks,
                          contact_status, interview_scheduled, ratings)
                 /\ Say({}, Notice("success", "Successfully loaded applications", len(ndf)))
            ELSE /\ last' = Op("load_failed", NoId)
                 /\ prev' = Remembered(last)
                 /\ Say({}, Notice("error", "Error loading file", NoId))
                 /\ UNCHANGED <<df, shortlisted, rejected, remarks, contact_status,
                                interview_scheduled, ratings>>
    /\ ops' = 0

\* filtered_df as the handlers of this run see it (sorting does not change
\* which rows it holds)
FilteredIDs(view) ==
    FrameIDs(apply_filters(df, view.filters, view.today, shortlisted, rejected,
                           contact_status, interview_scheduled))

\* the filtered frames (as id sets) the reviewer can put on screen
FilteredSets == { FilteredIDs(view) : view \in Views }

\* what st.session_state.df holds after apply_filters(df, filters) returned:
\* apply_filters works on df.copy(), so the Age column it adds under an age
\* bound lands in the copy
apply_filters_stored_NoCopy(d, filters, today) ==
    IF /\ filters.min_age # 0 \/ filters.max_age # 0
       /\ [filters EXCEPT !.min_age = 0, !.max_age = 0, !.view_mode = "All Applications"]
            = NoFilters
    THEN DataFrame([i \in 1..Len(d.rows) |->
                      [c \in (DOMAIN d.rows[i]) \cup {"Age"} |->
                          IF c = "Age" THEN AgeOf[d.rows[i].age_str][today]
                          ELSE d.rows[i][c]]])
    ELSE d
apply_filters_stored(d, filters, today) == d

\* what st.session_state.remarks holds after the candidate cards called
\* get_remarks for the rows on screen: dict.get inserts nothing
get_remarks_stored_SetDefault(ids, rm) ==
    [x \in (DOMAIN rm) \cup ids |-> IF x \in DOMAIN rm THEN rm[x] ELSE << >>]
get_remarks_stored(ids, rm) == rm

\* a sidebar widget is changed: the script runs again with the new filters
\* and, past the metrics row, draws the cards of the filtered rows
ChangeSidebar ==
    /\ df # NoneDF /\ ops < MaxOps
    /\ \E view \in Views :
         /\ df' = apply_filters_stored(df, view.filters, view.today)
         /\ last' = Op(IF view.filters.min_age # 0 \/ view.filters.max_age # 0
                       THEN "sidebar_age" ELSE "sidebar", NoId)
         /\ Say(FilteredIDs(view), NoNotice)
         /\ remarks' = IF len(df) > 0
                       THEN get_remarks_stored(FilteredIDs(view), remarks)
                       ELSE remarks
    /\ prev' = Remembered(last)
    /\ UNCHANGED <<shortlisted, rejected, contact_status,
                   interview_scheduled, ratings>>
    /\ ops' = ops + 1

\* "Shortlist" button of a candidate card
ShortlistHandler_KeepsRejected(sl, rj, row_id) == [shortlisted |-> sl \cup {row_id}, rejected |-> rj]
ShortlistHandler_Toggles(sl, rj, row_id) ==
    IF row_id \in sl
    THEN [shortlisted |-> sl \ {row_id}, rejected |-> rj]
    ELSE [shortlisted |-> sl \cup {row_id}, rejected |-> rj \ {row_id}]
ShortlistHandler_ClearsRejected(sl, rj, row_id) == [shortlisted |-> sl \cup {row_id}, rejected |-> {}]
ShortlistHandler(sl, rj, row_id) == [shortlisted |-> sl \cup {row_id}, rejected |-> rj \ {row_id}]
Shortlist ==
    /\ Reached /\ ops < MaxOps
    /\ \E row_id \in IDs(df) :
         LET r == ShortlistHandler(shortlisted, rejected, row_id)
         IN Rerun(Op("shortlist", row_id), df, r.shortlisted, r.rejected, remarks,
                  contact_status, interview_scheduled, ratings)
    /\ Say({}, NoNotice)
    /\ ops' = ops + 1

\* "Reject" button of a candidate card
RejectHandler_KeepsShortlisted(sl, rj, row_id) == [shortlisted |-> sl, rejected |-> rj \cup {row_id}]
RejectHandler(sl, rj, row_id) == [shortlisted |-> sl \ {row_id}, rejected |-> rj \cup {row_id}]
Reject ==
    /\ Reached /\ ops < MaxOps
    /\ \E row_id \in IDs(df) :
         LET r == RejectHandler(shortlisted, rejected, row_id)
         IN Rerun(Op("reject", row_id), df, r.shortlisted, r.rejected, remarks,
                  contact_status, interview_scheduled, ratings)
    /\ Say({}, NoNotice)
    /\ ops' = ops + 1

\* "Contact Status" selectbox of a candidate card
SetContactStatus ==
    /\ Reached /\ ops < MaxOps
    /\ \E row_id \in IDs(df), new_contact \in ContactChoices :
         LET current_contact == DictGet(contact_status, row_id, "Not Contacted")
         IN /\ new_contact # current_contact
            /\ Rerun(Op("contact", row_id), df, shortlisted, rejected, remarks,
                     DictSet(contact_status, row_id, new_contact),
                     interview_scheduled, ratings)
    /\ Say({}, NoNotice)
    /\ ops' = ops + 1

\* "Rating" selectbox of a candidate card
SetRating ==
    /\ Reached /\ ops < MaxOps
    /\ \E row_id \in IDs(df), new_rating \in RatingChoices :
         /\ new_rating # DictGet(ratings, row_id, 0)
         /\ Rerun(Op("rating", row_id), df, shortlisted, rejected, remarks,
                  contact_status, interview_scheduled,
                  DictSet(ratings, row_id, new_rating))
    /\ Say({}, NoNotice)
    /\ ops' = ops + 1

\* "Schedule" button, shown while the candidate has no interview
ScheduleInterview_Reschedules ==
    /\ Reached /\ ops < MaxOps
    /\ \E row_id \in IDs(df), interview_date \in InterviewDates :
         Rerun(Op("schedule", row_id), df, shortlisted, rejected, remarks,
               contact_status,
               DictSet(interview_scheduled, row_id, interview_date), ratings)
    /\ Say({}, Notice("success", "Interview scheduled!", NoId))
    /\ ops' = ops + 1
ScheduleInterview ==
    /\ Reached /\ ops < MaxOps
    /\ \E row_id \in IDs(df), interview_date \in InterviewDates :
         /\ row_id \notin DOMAIN interview_scheduled
         /\ Rerun(Op("schedule", row_id), df, shortlisted, rejected, remarks,
                  contact_status,
                  DictSet(interview_scheduled, row_id, interview_date), ratings)
    /\ Say({}, Notice("success", "Interview scheduled!", NoId))
    /\ ops' = ops + 1

\* "Cancel" button, shown while the candidate has an interview
CancelInterview ==
    /\ Reached /\ ops < MaxOps
    /\ \E row_id \in IDs(df) :
         /\ row_id \in DOMAIN interview_scheduled
         /\ Rerun(Op("cancel", row_id), df, shortlisted, rejected, remarks,
                  contact_status, DictDel(interview_scheduled, row_id), ratings)
    /\ Say({}, NoNotice)
    /\ ops' = ops + 1

\* "Save" button under the remark text area
SaveRemark ==
    /\ Reached /\ ops < MaxOps
    /\ \E row_id \in IDs(df), new_remark \in RemarkTexts :
         IF Strip(new_remark) # ""
         THEN /\ Len(get_remarks(row_id, remarks)) < MaxRemarks
              /\ Rerun(Op("remark", row_id), df, shortlisted, rejected,
                       add_remark(remarks, row_id, new_remark, Now),
                       contact_status, interview_scheduled, ratings)
              /\ Say({}, Notice("success", "Remark saved!", NoId))
         ELSE /\ last' = Op("remark_blank", row_id)
              /\ prev' = Remembered(last)
              /\ Say({}, NoNotice)
              /\ UNCHANGED <<df, shortlisted, rejected, remarks, contact_status,
                             interview_scheduled, ratings>>
    /\ ops' = ops + 1

\* for id in ids: d[id] = value
DictSetAll(d, ids, value) ==
    [x \in (DOMAIN d) \cup ids |-> IF x \in ids THEN value ELSE d[x]]

\* "Mark All Shortlisted as 'Email Sent'"
MarkShortlistedEmailSent ==
    /\ Reached /\ ops < MaxOps
    /\ Rerun(Op("mark_shortlisted_email_sent", NoId), df, shortlisted, rejected, remarks,
             DictSetAll(contact_status, shortlisted, "Email Sent"),
             interview_scheduled, ratings)
    /\ Say(shortlisted, Notice("success", "Updated candidates!", Cardinality(shortlisted)))
    /\ ops' = ops + 1

\* "Mark All Filtered as 'Called - No Answer'"
MarkFilteredNoAnswer ==
    /\ Reached /\ ops < MaxOps
    /\ \E ids \in FilteredSets :
         /\ Rerun(Op("mark_filtered_no_answer", NoId), df, shortlisted, rejected, remarks,
                  DictSetAll(contact_status, ids, "Called - No Answer"),
                  interview_scheduled, ratings)
         /\ Say(ids, Notice("success", "Updated candidates!", Cardinality(ids)))
    /\ ops' = ops + 1

\* the rows of filtered_df (by id) that an auto-shortlist rule picks
RowOf(d, id) == d.rows[CHOOSE i \in 1..Len(d.rows) : d.rows[i].ID = id]
LaptopAndSmartphone_Either(d, ids) ==
    { id \in ids : RowOf(d, id).laptop = "Yes" \/ RowOf(d, id).smartphone = "Yes" }
LaptopAndSmartphone(d, ids) ==
    { id \in ids : RowOf(d, id).laptop = "Yes" /\ RowOf(d, id).smartphone = "Yes" }
FullTimeAvailable(d, ids) ==
    { id \in ids : StrIn("Full", CellStr(RowOf(d, id), "availability")) }
GraduateOrEngineer(d, ids) ==
    { id \in ids : RowOf(d, id).qualification \in {"Graduate", "Engineer"} }
RatedFourPlus_Strict(ids, rt) == { id \in ids : DictGet(rt, id, 0) > 4 }
RatedFourPlus(ids, rt) == { id \in ids : DictGet(rt, id, 0) >= 4 }

\* the loop body of every auto-shortlist rule and of "Shortlist All Filtered"
ShortlistEach(sl, rj, ids) == [shortlisted |-> sl \cup ids, rejected |-> rj \ ids]
RejectEach_SkipsShortlisted(sl, rj, ids) == [shortlisted |-> sl, rejected |-> rj \cup (ids \ sl)]
RejectEach(sl, rj, ids) == [shortlisted |-> sl \ ids, rejected |-> rj \cup ids]
ResetEach(sl, rj, ids) == [shortlisted |-> sl \ ids, rejected |-> rj \ ids]

BulkDisposition(op, r, ids, n) ==
    /\ Rerun(Op(op, NoId), df, r.shortlisted, r.rejected, remarks, contact_status,
             interview_scheduled, ratings)
    /\ Say(ids, n)

\* "Shortlist: Has Laptop + Smartphone"
AutoShortlistLaptopSmartphone ==
    /\ Reached /\ ops < MaxOps
    /\ \E ids \in FilteredSets :
         BulkDisposition("auto_laptop_smartphone",
             ShortlistEach(shortlisted, rejected,
                           LaptopAndSmartphone(df, ids)),
             ids,
             Notice("success", "Auto-shortlisted candidates!",
                    Cardinality(LaptopAndSmartphone(df, ids))))
    /\ ops' = ops + 1

\* "Shortlist: Full-time Available"
AutoShortlistFullTime ==
    /\ Reached /\ ops < MaxOps
    /\ \E ids \in FilteredSets :
         BulkDisposition("auto_full_time",
             ShortlistEach(shortlisted, rejected,
                           FullTimeAvailable(df, ids)),
             ids,
             Notice("success", "Auto-shortlisted candidates!",
                    Cardinality(FullTimeAvailable(df, ids))))
    /\ ops' = ops + 1

\* "Shortlist: Graduate/Engineer"
AutoShortlistGraduateEngineer ==
    /\ Reached /\ ops < MaxOps
    /\ \E ids \in FilteredSets :
         BulkDisposition("auto_graduate_engineer",
             ShortlistEach(shortlisted, rejected,
                           GraduateOrEngineer(df, ids)),
             ids,
             Notice("success", "Auto-shortlisted candidates!",
                    Cardinality(GraduateOrEngineer(df, ids))))
    /\ ops' = ops + 1

\* "Shortlist: Rated 4+ Stars"
AutoShortlistRated ==
    /\ Reached /\ ops < MaxOps
    /\ \E ids \in FilteredSets :
         BulkDisposition("auto_rated",
             ShortlistEach(shortlisted, rejected,
                           RatedFourPlus(ids, ratings)),
             ids,
             Notice("success", "Auto-shortlisted candidates!",
                    Cardinality(RatedFourPlus(ids, ratings))))
    /\ ops' = ops + 1

\* "Shortlist All Filtered"
ShortlistAllFiltered ==
    /\ Reached /\ ops < MaxOps
    /\ \E ids \in FilteredSets :
         BulkDisposition("shortlist_all_filtered",
             ShortlistEach(shortlisted, rejected, ids),
             ids, Notice("success", "Shortlisted candidates!", Cardinality(ids)))
    /\ ops' = ops + 1

\* "Reject All Filtered"
RejectAllFiltered ==
    /\ Reached /\ ops < MaxOps
    /\ \E ids \in FilteredSets :
         BulkDisposition("reject_all_filtered",
             RejectEach(shortlisted, rejected, ids),
             ids, Notice("warning", "Rejected candidates!", Cardinality(ids)))
    /\ ops' = ops + 1

\* "Reset All Filtered to Pending"
ResetFilteredToPending ==
    /\ Reached /\ ops < MaxOps
    /\ \E ids \in FilteredSets :
         BulkDisposition("reset_filtered",
             ResetEach(shortlisted, rejected, ids),
             ids, Notice("info", "Reset candidates to pending!", Cardinality(ids)))
    /\ ops' = ops + 1

\* "Auto-Rate by Qualification"
rating_map_TenScale ==
    [q \in {"Engineer", "Graduate", "Post Graduate", "Diploma", "Intermediate"} |->
        CASE q = "Engineer" -> 10
          [] q = "Graduate" -> 8
          [] q = "Post Graduate" -> 10
          [] q = "Diploma" -> 6
          [] q = "Intermediate" -> 4]
rating_map ==
    [q \in {"Engineer", "Graduate", "Post Graduate", "Diploma", "Intermediate"} |->
        CASE q = "Engineer" -> 5
          [] q = "Graduate" -> 4
          [] q = "Post Graduate" -> 5
          [] q = "Diploma" -> 3
          [] q = "Intermediate" -> 2]
AutoRated(d, ids) == { id \in ids : RowOf(d, id).qualification \in DOMAIN rating_map }
AutoRate_ZeroUnmapped(d, rt, ids) ==
    [x \in (DOMAIN rt) \cup ids |->
        IF x \in ids
        THEN (IF RowOf(d, x).qualification \in DOMAIN rating_map
              THEN rating_map[RowOf(d, x).qualification] ELSE 0)
        ELSE rt[x]]
AutoRate(d, rt, ids) ==
    LET rated == AutoRated(d, ids)
    IN [x \in (DOMAIN rt) \cup rated |->
          IF x \in rated THEN rating_map[RowOf(d, x).qualification] ELSE rt[x]]
AutoRateByQualification ==
    /\ Reached /\ ops < MaxOps
    /\ \E ids \in FilteredSets :
         /\ Rerun(Op("auto_rate", NoId), df, shortlisted, rejected, remarks, contact_status,
                  interview_scheduled, AutoRate(df, ratings, ids))
         /\ Say(ids, Notice("success", "Auto-rated candidates!",
                            Cardinality(AutoRated(df, ids))))
    /\ ops' = ops + 1

\* export_onboarding_package: the candidate's fields, the computed age and
\* the 'Selection History'; Rating is the JSON text of
\* ratings.get(row_id, 'Not Rated')
export_onboarding_package(row_id, d, today, sl, rj, rm, cs, isch, rt) ==
    LET candidate == d.rows[CHOOSE i \in 1..Len(d.rows) : d.rows[i].ID = row_id]
    IN [ Personal |-> [ Name |-> candidate.name,
                        Age |-> AgeOf[candidate.age_str][today],
                        Gender |-> candidate.gender ],
         Address |-> [ District |-> candidate.district ],
         Education |-> [ Qualification |-> candidate.qualification ],
         Technical |-> [ Has_Laptop |-> candidate.laptop,
                         Has_Smartphone |-> candidate.smartphone ],
         Preferences |-> [ Type |-> candidate.internship_type,
                           Availability |-> candidate.availability ],
         Selection_History |->
            [ Status |-> get_status(row_id, sl, rj),
              Contact_Status |-> get_contact_status(row_id, cs),
              Rating |-> IF row_id \in DOMAIN rt THEN ToStr(rt[row_id])
                         ELSE "\"Not Rated\"",
              Interview_Scheduled |-> IF row_id \in DOMAIN isch THEN "Yes" ELSE "No",
              Remarks |-> get_remarks(row_id, rm) ] ]

\* "Export Package" button of a candidate card
ExportPackage ==
    /\ Reached /\ ops < MaxOps
    /\ \E row_id \in IDs(df) : last' = Op("export_package", row_id)
    /\ prev' = Remembered(last)
    /\ Say({}, NoNotice)
    /\ UNCHANGED <<df, shortlisted, rejected, remarks, contact_status,
                   interview_scheduled, ratings>>
    /\ ops' = ops + 1

\* "Download Full Report": report_df is a copy of df with the four
\* columns assigned
FullReport(d, sl, rj, cs, isch, rt) ==
    [i \in 1..Len(d.rows) |->
       LET r == d.rows[i]
       IN [c \in (DOMAIN r) \cup {"Status", "Contact_Status", "Rating", "Interview_Date"} |->
             CASE c = "Status" -> get_status(r.ID, sl, rj)
               [] c = "Contact_Status" -> DictGet(cs, r.ID, "Not Contacted")
               [] c = "Rating" -> DictGet(rt, r.ID, 0)
               [] c = "Interview_Date" -> DictGet(isch, r.ID, "Not Scheduled")
               [] OTHER -> r[c]]]
DownloadFullReport ==
    /\ Reached /\ ops < MaxOps
    /\ last' = Op("full_report", NoId)
    /\ prev' = Remembered(last)
    /\ Say(IDs(df), NoNotice)
    /\ UNCHANGED <<df, shortlisted, rejected, remarks, contact_status,
                   interview_scheduled, ratings>>
    /\ ops' = ops + 1

\* list(a_set): the elements in some order
ListsOf(S) ==
    { q \in [1..Cardinality(S) -> S] :
        \A i, j \in 1..Cardinality(S) : q[i] = q[j] => i = j }

\* json.dumps of a dict with int keys: the keys become their decimal text
JsonKeys(d) == [k \in { ToStr(id) : id \in DOMAIN d } |-> d[ToInt(k)]]

\* "Save Progress": the progress_data dicts json.dumps can be given (one
\* per order of the two lists), as the JSON text holds them
ProgressData_NoRatings(sl, rj, rm, cs, isch, rt, now) ==
    { [ shortlisted |-> s, rejected |-> r, remarks |-> JsonKeys(rm),
        contact_status |-> JsonKeys(cs), interview_scheduled |-> JsonKeys(isch),
        ratings |-> JsonKeys(EmptyDict), saved_at |-> now ] :
        s \in ListsOf(sl), r \in ListsOf(rj) }
ProgressData(sl, rj, rm, cs, isch, rt, now) ==
    { [ shortlisted |-> s, rejected |-> r, remarks |-> JsonKeys(rm),
        contact_status |-> JsonKeys(cs), interview_scheduled |-> JsonKeys(isch),
        ratings |-> JsonKeys(rt), saved_at |-> now ] :
        s \in ListsOf(sl), r \in ListsOf(rj) }
SaveProgress ==
    /\ Reached /\ ops < MaxOps
    /\ last' = Op("save_progress", NoId)
    /\ prev' = Remembered(last)
    /\ Say({}, NoNotice)
    /\ UNCHANGED <<df, shortlisted, rejected, remarks, contact_status,
                   interview_scheduled, ratings>>
    /\ ops' = ops + 1

\* "Reset All Selections"
ResetAllHandler_KeepsRejected(sl, rj) == [shortlisted |-> {}, rejected |-> rj]
ResetAllHandler(sl, rj) == [shortlisted |-> {}, rejected |-> {}]
ResetAllSelections ==
    /\ Reached /\ ops < MaxOps
    /\ LET r == ResetAllHandler(shortlisted, rejected)
       IN Rerun(Op("reset_all", NoId), df, r.shortlisted, r.rejected, remarks,
                contact_status, interview_scheduled, ratings)
    /\ Say({}, Notice("success", "All selections reset!", NoId))
    /\ ops' = ops + 1

\* "Upload New File": the last statement of the script
UploadNewFile_KeepsContactStatus ==
    /\ Reached
    /\ df' = NoneDF
    /\ shortlisted' = {}
    /\ rejected' = {}
    /\ remarks' = EmptyDict
    /\ contact_status' = contact_status
    /\ interview_scheduled' = EmptyDict
    /\ ratings' = EmptyDict
    /\ Say({}, NoNotice)
    /\ last' = Op("upload_new", NoId)
    /\ prev' = Remembered(last)
    /\ ops' = 0
UploadNewFile_KeepsRatings ==
    /\ Reached
    /\ df' = NoneDF
    /\ shortlisted' = {}
    /\ rejected' = {}
    /\ remarks' = EmptyDict
    /\ contact_status' = EmptyDict
    /\ interview_scheduled' = EmptyDict
    /\ ratings' = ratings
    /\ Say({}, NoNotice)
    /\ last' = Op("upload_new", NoId)
    /\ prev' = Remembered(last)
    /\ ops' = 0
UploadNewFile ==
    /\ Reached
    /\ df' = NoneDF
    /\ shortlisted' = {}
    /\ rejected' = {}
    /\ remarks' = EmptyDict
    /\ contact_status' = EmptyDict
    /\ interview_scheduled' = EmptyDict
    /\ ratings' = EmptyDict
    /\ Say({}, NoNotice)
    /\ last' = Op("upload_new", NoId)
    /\ prev' = Remembered(last)
    /\ ops' = 0

Next ==
    \/ Load
    \/ ChangeSidebar
    \/ Shortlist
    \/ Reject
    \/ SetContactStatus
    \/ SetRating
    \/ ScheduleInterview
    \/ CancelInterview
    \/ SaveRemark
    \/ MarkShortlistedEmailSent
    \/ MarkFilteredNoAnswer
    \/ AutoShortlistLaptopSmartphone
    \/ AutoShortlistFullTime
    \/ AutoShortlistGraduateEngineer
    \/ AutoShortlistRated
    \/ ShortlistAllFiltered
    \/ RejectAllFiltered
    \/ ResetFilteredToPending
    \/ AutoRateByQualification
    \/ ExportPackage
    \/ SaveProgress
    \/ DownloadFullReport
    \/ ResetAllSelections
    \/ UploadNewFile

Spec == Init /\ [][Next]_vars

\* what a run of the script renders on the current session state
Page == Script(df, shortlisted, rejected, remarks, contact_status,
               interview_scheduled, ratings)

(***************************************************************************)
(* Properties.                                                             *)
(***************************************************************************)
Store == <<shortlisted, rejected, remarks, contact_status, interview_scheduled, ratings>>
StoreEmpty ==
    /\ shortlisted = {} /\ rejected = {}
    /\ remarks = EmptyDict /\ contact_status = EmptyDict
    /\ interview_scheduled = EmptyDict /\ ratings = EmptyDict
Loaded == df # NoneDF
AnyToday == CHOOSE t \in Todays : TRUE
\* the ids apply_filters returns on the current state for one filter dictionary
Apply(filters) ==
    FrameIDs(apply_filters(df, filters, AnyToday, shortlisted, rejected,
                           contact_status, interview_scheduled))

\* C1: in every reachable state no candidate id is both in the shortlisted
\* set and in the rejected set.
C1_MutuallyExclusive == shortlisted \cap rejected = {}

\* C1 witness: a candidate that was rejected has just been shortlisted.
C1_Witness ==
    /\ prev.op = "reject" /\ last.op = "shortlist" /\ last.id = prev.id
    /\ last.id \in shortlisted

\* C2: last action wins: right after shortlist(id) then reject(id) the
\* candidate reads Rejected and is not in the shortlisted set; right after
\* reject(id) then shortlist(id) it reads Shortlisted and is not in the
\* rejected set.
C2_LastActionWins ==
    /\ (prev.op = "shortlist" /\ last.op = "reject" /\ last.id = prev.id) =>
          /\ get_status(last.id, shortlisted, rejected) = "Rejected"
          /\ last.id \notin shortlisted
    /\ (prev.op = "reject" /\ last.op = "shortlist" /\ last.id = prev.id) =>
          /\ get_status(last.id, shortlisted, rejected) = "Shortlisted"
          /\ last.id \notin rejected

\* C2 witness: shortlist(id) then reject(id) has run.
C2_Witness ==
    /\ prev.op = "shortlist" /\ last.op = "reject" /\ last.id = prev.id
    /\ last.id \in rejected

\* C3: idempotence: a second shortlist(id) right after shortlist(id) leaves
\* the whole status store as the first left it; the same for reject(id).
C3_Idempotent ==
    [][ (/\ last.op \in {"shortlist", "reject"}
         /\ last' = last
         /\ ops' = ops + 1) => Store' = Store ]_vars

\* C3 witness: the same candidate has been shortlisted twice in a row.
C3_Witness ==
    /\ prev.op = "shortlist" /\ last = prev
    /\ last.id \in shortlisted

\* C4: Reset All Selections empties the shortlisted and rejected sets, so
\* every candidate reads Pending, and leaves contact statuses, ratings,
\* interviews, remarks and the dataset as they were.
C4_ResetAll ==
    [][ (last'.op = "reset_all" /\ ops' = ops + 1) =>
          /\ shortlisted' = {} /\ rejected' = {}
          /\ \A id \in IDs(df') : get_status(id, shortlisted', rejected') = "Pending"
          /\ contact_status' = contact_status
          /\ ratings' = ratings
          /\ interview_scheduled' = interview_scheduled
          /\ remarks' = remarks
          /\ df' = df ]_vars

\* C4 witness: a reset has run right after a shortlist or reject, and a
\* contact status set before it is still there.
C4_Witness ==
    /\ last.op = "reset_all" /\ prev.op \in {"shortlist", "reject"}
    /\ contact_status # EmptyDict
    /\ shortlisted = {} /\ rejected = {}

\* C5: while no dataset is loaded and at the moment a dataset is installed,
\* the whole status store is empty.
C5_EmptyOnInstall == (~Loaded \/ last.op = "load") => StoreEmpty

\* C5 witness: a dataset with rows has been installed after Upload New File.
C5_Witness ==
    /\ prev.op = "upload_new" /\ last.op = "load"
    /\ Loaded /\ len(df) > 0

\* C6: the Contacted filter returns exactly the candidates whose current
\* contact status is not "Not Contacted", the Not Contacted filter exactly
\* those whose current contact status is "Not Contacted".
C6_ContactFilter ==
    Loaded =>
      /\ Apply([NoFilters EXCEPT !.contact_status = "Contacted"])
           = { id \in IDs(df) : get_contact_status(id, contact_status) # "Not Contacted" }
      /\ Apply([NoFilters EXCEPT !.contact_status = "Not Contacted"])
           = { id \in IDs(df) : get_contact_status(id, contact_status) = "Not Contacted" }

\* C7: the onboarding-ready set and the Candidates Ready figure of the
\* summary report are exactly the shortlisted candidates whose contact
\* status is "Called - Interested".
C7_OnboardingReady ==
    Reached =>
      LET ready == { id \in shortlisted :
                       get_contact_status(id, contact_status) = "Called - Interested" }
      IN /\ Page.ready_candidates = ready
         /\ SummaryReport(df, shortlisted, rejected, contact_status,
                          interview_scheduled).ready = Cardinality(ready)

\* C8: with a dataset of zero rows the dashboard is drawn without an error
\* and the three percentage deltas read 0.0%.
C8_ZeroRowsGuard ==
    (Loaded /\ len(df) = 0) =>
      /\ Page.screen = "dashboard"
      /\ Page.metrics.shortlisted_delta = 0
      /\ Page.metrics.rejected_delta = 0
      /\ Page.metrics.pending_delta = 0

\* C9: with a dataset loaded, the pending count total - shortlisted -
\* rejected is not negative and is the number of candidates that read
\* Pending, so shortlisted + rejected + pending = total, on the dashboard
\* and in the summary report.
C9_PendingCount ==
    Loaded =>
      LET report == SummaryReport(df, shortlisted, rejected, contact_status,
                                  interview_scheduled)
          pending == { id \in IDs(df) : get_status(id, shortlisted, rejected) = "Pending" }
      IN /\ report.pending >= 0
         /\ report.pending = Cardinality(pending)
         /\ Reached =>
              /\ Page.metrics.pending = Cardinality(pending)
              /\ Page.metrics.shortlisted + Page.metrics.rejected
                   + Page.metrics.pending = Page.metrics.total

\* C9 witness: a dashboard with a shortlisted, a rejected and no pending candidate.
C9_Witness ==
    /\ Reached /\ shortlisted # {} /\ rejected # {}
    /\ Page.metrics.pending = 0

\* C10: the funnel stages are counted independently: Applications is the
\* number of rows, Contacted the number of candidates with a contact entry,
\* Interview Scheduled the number with an interview, Shortlisted the
\* number that read Shortlisted, whatever the other stages hold.
C10_FunnelIndependent ==
    Reached =>
      /\ Page.funnel_data[1] = len(df)
      /\ Page.funnel_data[2] = Cardinality({ id \in IDs(df) : id \in DOMAIN contact_status })
      /\ Page.funnel_data[3] = Cardinality({ id \in IDs(df) : id \in DOMAIN interview_scheduled })
      /\ Page.funnel_data[4] =
           Cardinality({ id \in IDs(df) : get_status(id, shortlisted, rejected) = "Shortlisted" })

\* C10 witness: a funnel reported with a Contacted stage smaller than its
\* Shortlisted stage.
C10_Witness ==
    /\ Reached
    /\ Page.funnel_data[2] < Page.funnel_data[4]
    /\ Page.funnel_data[3] < Page.funnel_data[4]

\* the stores no disposition handler writes, and the dataset
Untouched == <<df, remarks, contact_status, interview_scheduled, ratings>>

\* C11: the rule "has laptop + smartphone", run over a subset, shortlists
\* (and takes out of rejected) exactly the candidates of the subset whose
\* laptop and smartphone cells are both "Yes"; every other candidate keeps
\* its disposition, none is rejected by it, and contact statuses, ratings,
\* interviews, remarks and the dataset are unchanged.
C11_LaptopSmartphoneRule ==
    [][ (last'.op = "auto_laptop_smartphone" /\ ops' = ops + 1) =>
          LET both == { id \in subset' :
                          \E i \in 1..len(df) :
                             /\ df.rows[i].ID = id
                             /\ df.rows[i].laptop = "Yes"
                             /\ df.rows[i].smartphone = "Yes" }
          IN /\ shortlisted' = shortlisted \cup both
             /\ rejected' = rejected \ both
             /\ rejected' \subseteq rejected
             /\ \A id \in IDs(df) \ both :
                   get_status(id, shortlisted', rejected')
                     = get_status(id, shortlisted, rejected)
             /\ Untouched' = Untouched ]_vars

\* C11 witness: the rule has run over a subset that holds a candidate who
\* was rejected and has both devices, now shortlisted, and a candidate
\* without both, still not shortlisted.
C11_Witness ==
    /\ last.op = "auto_laptop_smartphone" /\ prev.op = "reject"
    /\ prev.id \in subset /\ prev.id \in shortlisted /\ prev.id \notin rejected
    /\ \E id \in subset : id \notin shortlisted

\* C12: a Save with empty or whitespace-only remark text is rejected with
\* an error that the handler reports (it is not dropped silently), and the
\* remarks and every other store are left as they were.
C12_BlankRemarkReported ==
    [][ (last'.op = "remark_blank" /\ ops' = ops + 1) =>
          /\ notice'.kind \in {"error", "warning"}
          /\ Store' = Store
          /\ df' = df ]_vars

\* s is a prefix of t
IsPrefix(s, t) == Len(s) <= Len(t) /\ SubSeq(t, 1, Len(s)) = s

\* C13: remarks are append-only.  Across every step other than Upload New
\* File each candidate's remark list is a prefix of its list after the
\* step; a Save with non-blank text lengthens the list of its candidate by
\* exactly one entry at the end and changes no other list; every other
\* handler (shortlist, reject, the bulk actions, Reset All Selections, ...)
\* leaves the remarks as they are.
C13_RemarksAppendOnly ==
    [][ last'.op # "upload_new" =>
          /\ \A id \in DOMAIN remarks :
                id \in DOMAIN remarks' /\ IsPrefix(remarks[id], remarks'[id])
          /\ (last'.op = "remark" /\ ops' = ops + 1) =>
                LET id == last'.id
                    before == get_remarks(id, remarks)
                    after == get_remarks(id, remarks')
                IN /\ Len(after) = Len(before) + 1
                   /\ SubSeq(after, 1, Len(before)) = before
                   /\ \A other \in IDs(df) \ {id} :
                         get_remarks(other, remarks') = get_remarks(other, remarks)
          /\ last'.op # "remark" => remarks' = remarks ]_vars

\* C13 witness: a second remark, with another text, has been saved for a
\* candidate that had one.
C13_Witness ==
    /\ last.op = "remark"
    /\ Len(get_remarks(last.id, remarks)) = 2
    /\ remarks[last.id][1].remark # remarks[last.id][2].remark

\* sidebar settings that set several predicates at once
FilterSpecs ==
    { [filters |-> [NoFilters EXCEPT !.gender = g, !.view_mode = v,
                                     !.contact_status = c],
       today |-> AnyToday] :
        g \in {"All", "Female"},
        v \in {"All Applications", "Shortlisted", "Rejected", "Pending"},
        c \in {"All", "Contacted", "Not Contacted"} }
    \cup
    { [filters |-> [NoFilters EXCEPT !.min_age = a, !.max_age = b, !.search = s],
       today |-> t] :
        a \in {0, 24}, b \in {0, 23}, s \in {"", "RAVI"}, t \in Todays }
    \cup
    { [filters |-> [NoFilters EXCEPT !.laptop = "Yes", !.interview_status = i,
                                     !.view_mode = "Pending"],
       today |-> AnyToday] :
        i \in {"Scheduled", "Not Scheduled"} }
    \cup
    { [filters |-> [NoFilters EXCEPT !.qualification = "Graduate", !.smartphone = "No",
                                     !.district = "Pune", !.availability = "Full Time",
                                     !.internship_type = "Regular", !.max_age = 18],
       today |-> AnyToday] }

\* the row satisfies every predicate the filter dictionary sets
Satisfies(r, filters, today) ==
    /\ filters.search # "" =>
         \E c \in DOMAIN r : CellStr(r, c) \in CellsContaining[filters.search]
    /\ filters.gender # "All" => r.gender = filters.gender
    /\ filters.qualification # "All" => r.qualification = filters.qualification
    /\ filters.internship_type # "All" => r.internship_type = filters.internship_type
    /\ filters.laptop # "All" => r.laptop = filters.laptop
    /\ filters.smartphone # "All" => r.smartphone = filters.smartphone
    /\ filters.district # "All" => r.district = filters.district
    /\ filters.availability # "All" => r.availability = filters.availability
    /\ filters.contact_status = "Contacted" => r.ID \in DOMAIN contact_status
    /\ filters.contact_status = "Not Contacted" => r.ID \notin DOMAIN contact_status
    /\ filters.interview_status = "Scheduled" => r.ID \in DOMAIN interview_scheduled
    /\ filters.interview_status = "Not Scheduled" => r.ID \notin DOMAIN interview_scheduled
    /\ filters.min_age # 0 =>
         AgeOf[r.age_str][today] # NoAge /\ AgeOf[r.age_str][today] >= filters.min_age
    /\ filters.max_age # 0 =>
         AgeOf[r.age_str][today] # NoAge /\ AgeOf[r.age_str][today] <= filters.max_age
    /\ filters.view_mode = "Shortlisted" => r.ID \in shortlisted
    /\ filters.view_mode = "Rejected" => r.ID \in rejected
    /\ filters.view_mode = "Pending" => r.ID \notin shortlisted /\ r.ID \notin rejected

\* apply_filters on the current session state
Filtered(filters, today) ==
    apply_filters(df, filters, today, shortlisted, rejected, contact_status,
                  interview_scheduled)

C15_FilterNonDestructive ==
    [][ (last'.op \in {"sidebar", "sidebar_age"} /\ ops' = ops + 1) =>
          /\ df' = df
          /\ Store' = Store ]_vars

\* C15 witness: the script has run under an age bound that filtered rows
\* out, on a dataset with rows and a store that is not empty.
C15_Witness ==
    /\ last.op = "sidebar_age" /\ Reached
    /\ Cardinality(subset) < len(df)
    /\ ~StoreEmpty

\* age bounds the reviewer can enter (0 is "no bound")
MinAges == {0, 18, 24}
MaxAges == {0, 18, 23}

\* C16: the age-range filter: with a min and/or a max bound set,
\* apply_filters keeps exactly the candidates whose computed age is defined
\* and meets every bound that is set; a candidate whose birth date is empty
\* or does not parse is left out as soon as one bound is set, and is kept
\* by the age filter when no bound is set.
C16_AgeRangeFilter ==
    Loaded =>
      \A a \in MinAges, b \in MaxAges, t \in Todays :
         LET out == FrameIDs(Filtered([NoFilters EXCEPT !.min_age = a, !.max_age = b], t))
         IN \A i \in 1..len(df) :
               LET r == df.rows[i]
                   age == AgeOf[r.age_str][t]
               IN /\ (a # 0 \/ b # 0) =>
                       (r.ID \in out <=> /\ age # NoAge
                                         /\ a # 0 => age >= a
                                         /\ b # 0 => age <= b)
                  /\ (a = 0 /\ b = 0) => r.ID \in out
                  /\ (BirthDateOf[r.age_str] = NoDate /\ (a # 0 \/ b # 0)) => r.ID \notin out

\* C16 witness: the script has run with a min age of 24 on the two-row
\* dataset: the candidate who is 24 that day is kept, the candidate with
\* no birth date is left out.
C16_Witness ==
    /\ last.op = "sidebar_age" /\ Reached /\ len(df) = 2
    /\ subset = {0}
    /\ df.rows[2].age_str = ""

Date(y, m, d) == [year |-> y, month |-> m, day |-> d]

\* birth-date cells with the date they stand for (NoDate: none)
BirthCases ==
    { [text |-> "15-03-2000", date |-> Date(2000, 3, 15)],
      [text |-> "29-02-2004", date |-> Date(2004, 2, 29)],
      [text |-> "31-12-2005", date |-> Date(2005, 12, 31)],
      [text |-> "01-01-1990", date |-> Date(1990, 1, 1)],
      [text |-> "01-06-2025", date |-> Date(2025, 6, 1)],
      [text |-> "", date |-> NoDate],
      [text |-> "31-02-2001", date |-> NoDate],
      [text |-> "29-02-2001", date |-> NoDate],
      [text |-> "15-13-2000", date |-> NoDate],
      [text |-> "2000-03-15", date |-> NoDate],
      [text |-> "15/03/2000", date |-> NoDate],
      [text |-> "unknown", date |-> NoDate] }

\* values of datetime.now()
AsOfDates ==
    Todays \cup { Date(2024, 2, 29), Date(2024, 4, 1), Date(2023, 12, 31),
                  Date(2025, 1, 1) }

\* calculate_age on the cases, computed once
AgeCases == [c \in BirthCases |-> [t \in AsOfDates |-> calculate_age(c.text, t)]]

\* C17: age computation: for a birth-date cell that parses as
\* day-month-year and an as-of date, the age is asOf.year - birth.year,
\* less one exactly when (asOf.month, asOf.day) is strictly before
\* (birth.month, birth.day): 15-03-2000 gives 23 as of 2024-03-14 and 24 as
\* of 2024-03-15.  An empty cell or one that does not parse gives none.
\* The ages the filter uses for the rows of the dataset are these.
C17_AgeComputation ==
    /\ \A c \in BirthCases, t \in AsOfDates :
          IF c.date = NoDate
          THEN AgeCases[c][t] = NoAge
          ELSE LET before == \/ t.month < c.date.month
                             \/ t.month = c.date.month /\ t.day < c.date.day
               IN /\ AgeCases[c][t] # NoAge
                  /\ AgeCases[c][t] = t.year - c.date.year - (IF before THEN 1 ELSE 0)
    /\ \E c \in BirthCases :
          /\ c.text = "15-03-2000"
          /\ AgeCases[c][Date(2024, 3, 14)] = 23
          /\ AgeCases[c][Date(2024, 3, 15)] = 24
    /\ Loaded =>
          \A i \in 1..len(df), t \in Todays :
             \E c \in BirthCases :
                /\ c.text = df.rows[i].age_str
                /\ AgeOf[c.text][t] = AgeCases[c][t]

\* C17 witness: the script has run with a min age of 24 on the day before
\* the 24th birthday of the candidate born 15-03-2000: the candidate, 23
\* that day, is filtered out.
C17_Witness ==
    /\ last.op = "sidebar_age" /\ Reached
    /\ df.rows[1].age_str = "15-03-2000"
    /\ subset = {}

(***************************************************************************)
(* The sorting block (src/app2.py:448-459).                                *)
(***************************************************************************)
sort_options ==
    { "Submission Date (Newest)", "Submission Date (Oldest)", "Name (A-Z)",
      "Name (Z-A)", "Rating (High-Low)" }

\* the values of the two text columns the block sorts by, in Python's
\* string order
SubmissionOrder == << "2024-01-01", "2024-01-02", "2024-01-03", "2024-01-04" >>
NameOrder == << "Asha", "Kiran", "Meena", "Ravi" >>
Rank(order, value) == CHOOSE k \in 1..Len(order) : order[k] = value

\* the orders of rows
RowOrders(rows) ==
    { [i \in 1..Len(rows) |-> rows[p[i]]] :
        p \in { q \in [1..Len(rows) -> 1..Len(rows)] :
                  \A i, j \in 1..Len(rows) : q[i] = q[j] => i = j } }

\* DataFrame.sort_values(column, ascending) with the default
\* kind='quicksort', which pandas documents as not stable: the rows come
\* out ordered by the key, rows with equal keys in any order.  key maps the
\* ID of a row to its value in the column.
sort_values(rows, key, ascending) ==
    { out \in RowOrders(rows) :
        \A i, j \in 1..Len(out) :
           i < j => IF ascending THEN key[out[i].ID] <= key[out[j].ID]
                    ELSE key[out[i].ID] >= key[out[j].ID] }

\* the frames the sorting block can leave in filtered_df
SortedFrames(rows, sort_by, rt) ==
    LET ids == FrameIDs(rows)
        row(id) == rows[CHOOSE i \in 1..Len(rows) : rows[i].ID = id]
        by_date == [id \in ids |-> Rank(SubmissionOrder, row(id).submission_date)]
        by_name == [id \in ids |-> Rank(NameOrder, row(id).name)]
        Rating_Sort == [id \in ids |-> DictGet(rt, id, 0)]
    IN IF StrIn("Newest", sort_by) THEN sort_values(rows, by_date, FALSE)
       ELSE IF StrIn("Oldest", sort_by) THEN sort_values(rows, by_date, TRUE)
       ELSE IF StrIn("A-Z", sort_by) THEN sort_values(rows, by_name, TRUE)
       ELSE IF StrIn("Z-A", sort_by) THEN sort_values(rows, by_name, FALSE)
       ELSE IF StrIn("Rating", sort_by) THEN sort_values(rows, Rating_Sort, FALSE)
       ELSE { rows }

\* C18: sort stability: under the rating-descending sort every frame the
\* sorting block can produce is a permutation of the filtered frame in
\* non-increasing rating order (unrated counted as 0), and two candidates
\* with the same rating keep their relative order of the filtered frame.
C18_SortStable ==
    Reached =>
      LET input == Filtered(NoFilters, AnyToday)
          rating(r) == DictGet(ratings, r.ID, 0)
      IN \A out \in SortedFrames(input, "Rating (High-Low)", ratings) :
            /\ out \in RowOrders(input)
            /\ \A i, j \in 1..Len(out) : i < j => rating(out[i]) >= rating(out[j])
            /\ \A i, j \in 1..Len(out) :
                  (i < j /\ rating(out[i]) = rating(out[j])) => out[i].ID < out[j].ID

\* C19: the blanket bulk handlers (Shortlist All Filtered, Reject All
\* Filtered, Reset All Filtered to Pending, Mark All Filtered as 'Called -
\* No Answer', Mark All Shortlisted as 'Email Sent') apply their transition
\* to every candidate of the subset they loop over, whatever its fields
\* and current status, and leave the disposition and the contact status of
\* every candidate outside the subset as they were.
C19_BlanketBulk ==
    [][ (ops' = ops + 1 /\ df # NoneDF) =>
          LET ids == subset'
              outside == IDs(df) \ ids
              DispositionKept(S) ==
                  \A id \in S : get_status(id, shortlisted', rejected')
                                  = get_status(id, shortlisted, rejected)
              ContactKept(S) ==
                  \A id \in S : /\ (id \in DOMAIN contact_status' <=> id \in DOMAIN contact_status)
                                /\ get_contact_status(id, contact_status')
                                     = get_contact_status(id, contact_status)
          IN /\ last'.op = "shortlist_all_filtered" =>
                  /\ \A id \in ids : id \in shortlisted' /\ id \notin rejected'
                  /\ DispositionKept(outside) /\ ContactKept(IDs(df))
             /\ last'.op = "reject_all_filtered" =>
                  /\ \A id \in ids : id \in rejected' /\ id \notin shortlisted'
                  /\ DispositionKept(outside) /\ ContactKept(IDs(df))
             /\ last'.op = "reset_filtered" =>
                  /\ \A id \in ids : id \notin rejected' /\ id \notin shortlisted'
                  /\ DispositionKept(outside) /\ ContactKept(IDs(df))
             /\ last'.op = "mark_filtered_no_answer" =>
                  /\ \A id \in ids : get_contact_status(id, contact_status') = "Called - No Answer"
                  /\ ContactKept(outside) /\ DispositionKept(IDs(df))
             /\ last'.op = "mark_shortlisted_email_sent" =>
                  /\ ids = shortlisted
                  /\ \A id \in ids : get_contact_status(id, contact_status') = "Email Sent"
                  /\ ContactKept(outside) /\ DispositionKept(IDs(df)) ]_vars

\* C19 witness: Reject All Filtered has run over a filtered frame that
\* holds a candidate who was shortlisted, now rejected, while a candidate
\* outside the frame is not rejected.
C19_Witness ==
    /\ last.op = "reject_all_filtered" /\ prev.op = "shortlist"
    /\ prev.id \in subset /\ prev.id \in rejected /\ prev.id \notin shortlisted
    /\ \E id \in IDs(df) \ subset : id \notin rejected

\* C20: Auto-Rate by Qualification, run over a subset, sets the rating of
\* each candidate of the subset whose qualification is Engineer (5),
\* Graduate (4), Post Graduate (5), Diploma (3) or Intermediate (2) to that
\* value, and leaves the rating entry of every candidate with another
\* qualification, and of every candidate outside the subset, exactly as it
\* was (present or absent), never setting it to 0.
C20_AutoRate ==
    [][ (last'.op = "auto_rate" /\ ops' = ops + 1) =>
          \A i \in 1..len(df) :
             LET id == df.rows[i].ID
                 qual == df.rows[i].qualification
                 mapped == qual \in {"Engineer", "Graduate", "Post Graduate",
                                     "Diploma", "Intermediate"}
             IN IF id \in subset' /\ mapped
                THEN /\ id \in DOMAIN ratings'
                     /\ ratings'[id] = CASE qual = "Engineer" -> 5
                                         [] qual = "Graduate" -> 4
                                         [] qual = "Post Graduate" -> 5
                                         [] qual = "Diploma" -> 3
                                         [] qual = "Intermediate" -> 2
                ELSE /\ id \in DOMAIN ratings' <=> id \in DOMAIN ratings
                     /\ id \in DOMAIN ratings => ratings'[id] = ratings[id] ]_vars

\* C20 witness: the auto-rate has run over a subset with a candidate of an
\* unmapped qualification who keeps the rating 3 given before, and a
\* candidate of a mapped qualification who now has the mapped rating.
C20_Witness ==
    /\ last.op = "auto_rate" /\ Reached
    /\ \E id \in subset :
          /\ RowOf(df, id).qualification = "High School"
          /\ DictGet(ratings, id, 0) = 3
    /\ \E id \in subset :
          /\ RowOf(df, id).qualification = "Engineer"
          /\ DictGet(ratings, id, 0) = 5

\* C21: ratings stay in range: in every reachable state every stored
\* rating is an integer of 0..5, whichever of the rating selectbox and the
\* auto-rate stored it, and a candidate with no stored rating reads as 0.
C21_RatingsInRange ==
    /\ \A id \in DOMAIN ratings : ratings[id] \in 0..5
    /\ Loaded => \A id \in IDs(df) \ DOMAIN ratings : get_rating(id, ratings) = 0

\* C21 witness: the auto-rate has stored a 5 for one candidate and left
\* another without an entry.
C21_Witness ==
    /\ last.op = "auto_rate" /\ Reached
    /\ \E id \in DOMAIN ratings : ratings[id] = 5
    /\ IDs(df) \ DOMAIN ratings # {}

\* ids the helpers are asked about: ids of rows, and ids of no row
ProbeIds == {NoId, 0, 1, 2, 99}

\* C22: the query helpers are total: for any id with no entry, an id of no
\* row of the dataset included, get_status returns Pending,
\* get_contact_status returns Not Contacted, the rating reads 0 and
\* get_remarks returns the empty list; and a run of the script that calls
\* them for the cards on screen creates no entry in any store.
C22_HelpersTotal ==
    [][ /\ \A id \in ProbeIds :
              /\ id \notin shortlisted' \cup rejected' =>
                    get_status(id, shortlisted', rejected') = "Pending"
              /\ id \notin DOMAIN contact_status' =>
                    get_contact_status(id, contact_status') = "Not Contacted"
              /\ id \notin DOMAIN ratings' => get_rating(id, ratings') = 0
              /\ id \notin DOMAIN remarks' => get_remarks(id, remarks') = << >>
        /\ (last'.op \in {"sidebar", "sidebar_age"} /\ ops' = ops + 1) =>
              Store' = Store ]_vars

\* C22 witness: the script has drawn the card of a candidate with no
\* remarks, no contact status and no rating while the remarks hold an
\* entry of another candidate.
C22_Witness ==
    /\ last.op = "sidebar" /\ Reached
    /\ remarks # EmptyDict
    /\ \E id \in subset :
          /\ id \notin DOMAIN remarks /\ id \notin DOMAIN contact_status
          /\ id \notin DOMAIN ratings /\ id \notin shortlisted \cup rejected

\* the metrics row and the funnel as a run draws them, after it computed
\* filtered_df; results is the "Applications (N results)" heading
Dashboard_OverFiltered(d, filtered_df, sl, rj, cs, isch) ==
    [ metrics |-> [Metrics(d, sl, rj, cs, isch) EXCEPT !.total = Len(filtered_df)],
      funnel_data |-> [FunnelCounts(d, sl, cs, isch) EXCEPT ![1] = Len(filtered_df)],
      results |-> Len(filtered_df) ]
Dashboard(d, filtered_df, sl, rj, cs, isch) ==
    [ metrics |-> Metrics(d, sl, rj, cs, isch),
      funnel_data |-> FunnelCounts(d, sl, cs, isch),
      results |-> Len(filtered_df) ]

\* C23: the dashboard aggregates are independent of the view: on one
\* dataset and status store the counts (total, shortlisted, rejected,
\* pending, contacted, interviews) and the funnel are the same under every
\* filter dictionary and every sort key.
C23_DashboardIgnoresView ==
    Reached =>
      LET base == Dashboard(df, df.rows, shortlisted, rejected, contact_status,
                            interview_scheduled)
          frames == { Filtered(view.filters, view.today) : view \in Views }
      IN \A rows \in frames, sort_by \in sort_options :
            \A filtered_df \in SortedFrames(rows, sort_by, ratings) :
               LET shown == Dashboard(df, filtered_df, shortlisted, rejected,
                                      contact_status, interview_scheduled)
               IN /\ shown.metrics = base.metrics
                  /\ shown.funnel_data = base.funnel_data
                  /\ shown.metrics.total = len(df)

\* C23 witness: the page has been drawn under a filter that leaves out a
\* row, with a shortlisted candidate and a contact entry in the store.
C23_Witness ==
    /\ last.op = "sidebar" /\ Reached
    /\ Cardinality(subset) < len(df)
    /\ shortlisted # {} /\ contact_status # EmptyDict

\* C24: the full report is additive: it has one row per row of the
\* dataset, in import order; every column of the dataset holds the row's
\* unchanged value; the derived columns hold the row's disposition label,
\* its contact status (Not Contacted by default), its rating (0 by
\* default) and its interview date or 'Not Scheduled'; and producing it
\* changes neither the dataset nor the status store.
C24_FullReportAdditive ==
    Reached =>
      LET report == FullReport(df, shortlisted, rejected, contact_status,
                               interview_scheduled, ratings)
      IN /\ Len(report) = len(df)
         /\ \A i \in 1..len(df) :
               LET id == df.rows[i].ID
               IN /\ \A c \in DOMAIN df.rows[i] : report[i][c] = df.rows[i][c]
                  /\ report[i].Status = get_status(id, shortlisted, rejected)
                  /\ report[i].Contact_Status = get_contact_status(id, contact_status)
                  /\ report[i].Rating = get_rating(id, ratings)
                  /\ report[i].Interview_Date
                       = DictGet(interview_scheduled, id, "Not Scheduled")

\* C25: the status snapshot of the onboarding package of a candidate
\* agrees with the query helpers: its disposition is get_status(id), its
\* contact status get_contact_status(id), its rating the rating the
\* candidate reads (so a candidate never rated and one rated and set back
\* to 0 export the same value), its interview flag is Yes exactly when an
\* interview date is stored, and its remarks are the candidate's remark
\* list in insertion order.
C25_PackageAgreesWithHelpers ==
    Reached =>
      \A id \in IDs(df) :
         LET history == export_onboarding_package(id, df, AnyToday, shortlisted,
                            rejected, remarks, contact_status, interview_scheduled,
                            ratings).Selection_History
         IN /\ history.Status = get_status(id, shortlisted, rejected)
            /\ history.Contact_Status = get_contact_status(id, contact_status)
            /\ history.Rating = ToStr(get_rating(id, ratings))
            /\ history.Interview_Scheduled = "Yes" <=> id \in DOMAIN interview_scheduled
            /\ history.Remarks = get_remarks(id, remarks)

\* C26: a failed load installs no dataset: after it the dataset is still
\* unset, the store is empty as it was, and every component of the status
\* store is unchanged; ids are given on a successful load only, as 0..n-1
\* in the order of the rows of the file.
C26_FailedLoad ==
    [][ /\ last'.op = "load_failed" =>
              /\ df = NoneDF /\ df' = NoneDF
              /\ Store' = Store
              /\ StoreEmpty
              /\ notice'.kind = "error"
        /\ (last'.op = "load" /\ df = NoneDF) =>
              /\ df' # NoneDF
              /\ \E file \in Files :
                    /\ file.ok /\ Len(file.rows) = len(df')
                    /\ \A i \in 1..len(df') :
                          /\ df'.rows[i].ID = i - 1
                          /\ \A c \in DOMAIN file.rows[i] :
                                df'.rows[i][c] = file.rows[i][c] ]_vars

\* C26 witness: after Upload New File a file that does not parse has been
\* uploaded, and no dataset is installed.
C26_Witness ==
    /\ last.op = "load_failed" /\ prev.op = "upload_new"
    /\ df = NoneDF /\ notice.kind = "error"

\* the status store a progress snapshot stands for
IntKeys(d) == [id \in { ToInt(k) : k \in DOMAIN d } |-> d[ToStr(id)]]
Reconstruct(snap) ==
    << { snap.shortlisted[i] : i \in 1..Len(snap.shortlisted) },
       { snap.rejected[i] : i \in 1..Len(snap.rejected) },
       IntKeys(snap.remarks), IntKeys(snap.contact_status),
       IntKeys(snap.interview_scheduled), IntKeys(snap.ratings) >>

\* C27: the session-progress snapshot determines the status store: it holds
\* the shortlisted set, the rejected set and the remarks, contact-status,
\* interview and ratings maps, so the store can be read back from the
\* snapshot alone (two states with equal snapshots, the save timestamp
\* aside, have equal stores); and taking a snapshot changes no store.
C27_SnapshotDeterminesStore ==
    [][ /\ (df' # NoneDF /\ len(df') > 0) =>
              \A snap \in ProgressData(shortlisted', rejected', remarks',
                                       contact_status', interview_scheduled',
                                       ratings', Now) :
                 Reconstruct(snap) = Store'
        /\ (last'.op = "save_progress" /\ ops' = ops + 1) =>
              /\ Store' = Store
              /\ df' = df ]_vars

\* C27 witness: a snapshot has been taken of a store with a shortlisted
\* candidate and a rating.
C27_Witness ==
    /\ last.op = "save_progress" /\ Reached
    /\ shortlisted # {} /\ ratings # EmptyDict

\* C28: the count an auto-shortlist rule reports (laptop and smartphone,
\* availability containing 'Full', qualification Graduate or Engineer,
\* rating of 4 or more) is the number of candidates of the subset that
\* satisfy the rule's predicate when it is run, and each of them is
\* shortlisted and not rejected afterwards.
C28_AutoShortlistCount ==
    [][ (/\ ops' = ops + 1
         /\ last'.op \in {"auto_laptop_smartphone", "auto_full_time",
                          "auto_graduate_engineer", "auto_rated"}) =>
          LET Row_(id) == df.rows[CHOOSE i \in 1..len(df) : df.rows[i].ID = id]
              Holds(id) ==
                  CASE last'.op = "auto_laptop_smartphone" ->
                          Row_(id).laptop = "Yes" /\ Row_(id).smartphone = "Yes"
                    [] last'.op = "auto_full_time" ->
                          StrIn("Full", CellStr(Row_(id), "availability"))
                    [] last'.op = "auto_graduate_engineer" ->
                          Row_(id).qualification \in {"Graduate", "Engineer"}
                    [] last'.op = "auto_rated" -> get_rating(id, ratings) >= 4
              hits == { id \in subset' : Holds(id) }
          IN /\ notice'.kind = "success"
             /\ notice'.count = Cardinality(hits)
             /\ \A id \in hits : id \in shortlisted' /\ id \notin rejected' ]_vars

\* C28 witness: the rule "rated 4+" has run over two candidates, one of
\* them rated 4, and reported the count 1.
C28_Witness ==
    /\ last.op = "auto_rated" /\ Cardinality(subset) = 2
    /\ notice.count = 1
    /\ \E id \in subset \cap shortlisted : get_rating(id, ratings) = 4

\* C29: status-store keys never leave the dataset: in every reachable state
\* every id of the shortlisted set, the rejected set and the contact-status,
\* ratings, interview-schedule and remarks dicts is the ID of a row of the
\* loaded dataset, so the row lookups of the interview list and of the
\* onboarding package find a row; while no dataset is loaded all six are
\* empty.
C29_KeysWithinDataset ==
    IF df = NoneDF
    THEN StoreEmpty
    ELSE LET keys == shortlisted \cup rejected \cup DOMAIN contact_status
                       \cup DOMAIN ratings \cup DOMAIN interview_scheduled
                       \cup DOMAIN remarks
         IN /\ keys \subseteq IDs(df)
            /\ \A id \in DOMAIN interview_scheduled \cup shortlisted :
                 \E i \in 1..len(df) : df.rows[i].ID = id

\* C29 witness: on a loaded dataset three different stores hold entries at
\* once (a shortlist, contact statuses and ratings).
C29_Witness ==
    /\ df # NoneDF /\ len(df) = 2
    /\ shortlisted # {}
    /\ DOMAIN contact_status # {}
    /\ DOMAIN ratings # {}

\* the remaining predicates held fixed while the view mode varies
ViewModeBases ==
    { NoFilters,
      [NoFilters EXCEPT !.gender = "Female"],
      [NoFilters EXCEPT !.contact_status = "Not Contacted"],
      [NoFilters EXCEPT !.search = CHOOSE t \in SearchTerms : t # ""] }

\* the ids apply_filters returns for one view mode, the rest of the
\* dictionary fixed
ViewModeOutput(base, view_mode) ==
    FrameIDs(Filtered([base EXCEPT !.view_mode = view_mode], AnyToday))

\* C30: view modes partition the result: for the loaded dataset, the status
\* store and any fixed remaining predicates, the outputs of apply_filters
\* with view mode Shortlisted, Rejected and Pending are pairwise disjoint and
\* their union is the output with view mode All Applications.
C30_ViewModesPartition ==
    Loaded =>
      \A base \in ViewModeBases :
        LET S == ViewModeOutput(base, "Shortlisted")
            R == ViewModeOutput(base, "Rejected")
            P == ViewModeOutput(base, "Pending")
            A == ViewModeOutput(base, "All Applications")
        IN /\ S \cap R = {} /\ S \cap P = {} /\ R \cap P = {}
           /\ S \cup R \cup P = A

\* C30 witness: of two candidates one was shortlisted and then rejected and
\* the other is pending, so two of the three parts are inhabited.
C30_Witness ==
    /\ Loaded /\ len(df) = 2
    /\ prev.op = "shortlist" /\ last.op = "reject" /\ last.id = prev.id
    /\ Cardinality(ViewModeOutput(NoFilters, "Rejected")) = 1
    /\ Cardinality(ViewModeOutput(NoFilters, "Pending")) = 1
    /\ ViewModeOutput(NoFilters, "Shortlisted") = {}

\* C31: dashboard counts agree with the filters: whenever the metrics row
\* is drawn, the shortlisted, rejected, pending, contacted and interviews
\* counts each equal the number of rows apply_filters returns over the whole
\* dataset with only the corresponding predicate set (view mode Shortlisted,
\* Rejected, Pending; contact filter Contacted; interview filter Scheduled).
C31_CountsAgreeWithFilters ==
    Reached =>
      LET Count(filters) == Len(Filtered(filters, AnyToday))
      IN /\ Page.metrics.shortlisted
              = Count([NoFilters EXCEPT !.view_mode = "Shortlisted"])
         /\ Page.metrics.rejected
              = Count([NoFilters EXCEPT !.view_mode = "Rejected"])
         /\ Page.metrics.pending
              = Count([NoFilters EXCEPT !.view_mode = "Pending"])
         /\ Page.metrics.contacted
              = Count([NoFilters EXCEPT !.contact_status = "Contacted"])
         /\ Page.metrics.interviews
              = Count([NoFilters EXCEPT !.interview_status = "Scheduled"])

\* C31 witness: the metrics row is drawn while a candidate's contact entry
\* has been set back to 'Not Contacted' and an interview is scheduled.
C31_Witness ==
    /\ Reached
    /\ \E id \in DOMAIN contact_status : contact_status[id] = "Not Contacted"
    /\ Page.metrics.contacted = 1
    /\ Page.metrics.interviews = 1

\* C32: single-candidate disposition changes are local: the Shortlist and
\* the Reject button of a candidate change only that candidate's membership
\* in the shortlisted and the rejected set; every other candidate keeps its
\* disposition, and the contact statuses, ratings, interview dates and
\* remarks of every candidate, and the dataset, are unchanged.
C32_DispositionLocal ==
    [][ (last'.op \in {"shortlist", "reject"} /\ ops' = ops + 1) =>
          LET id == last'.id
          IN /\ shortlisted' \ {id} = shortlisted \ {id}
             /\ rejected' \ {id} = rejected \ {id}
             /\ \A other \in IDs(df) \ {id} :
                   get_status(other, shortlisted', rejected')
                     = get_status(other, shortlisted, rejected)
             /\ contact_status' = contact_status
             /\ ratings' = ratings
             /\ interview_scheduled' = interview_scheduled
             /\ remarks' = remarks
             /\ df' = df ]_vars

\* C32 witness: a candidate has been shortlisted while another one is
\* rejected and a contact status is on record.
C32_Witness ==
    /\ prev.op = "reject" /\ last.op = "shortlist" /\ last.id # prev.id
    /\ prev.id \in rejected /\ last.id \in shortlisted
    /\ contact_status # EmptyDict

\* C33: interview scheduling protocol: Schedule acts on a candidate only
\* while it has no interview and stores one date for it; Cancel acts only
\* while it has one and removes it, so that scheduling and then cancelling
\* gives back the interview dict as it was; no step changes a stored date
\* (a date leaves the dict only by Cancel or Upload New File, and enters it
\* only by Schedule); and the interview filter 'Scheduled' returns exactly
\* the candidates that have a date, 'Not Scheduled' the others.
C33_InterviewProtocol ==
    [][ LET isch == interview_scheduled
            FilterMatches ==
                Loaded =>
                  /\ Apply([NoFilters EXCEPT !.interview_status = "Scheduled"])
                       = { id \in IDs(df) : id \in DOMAIN interview_scheduled }
                  /\ Apply([NoFilters EXCEPT !.interview_status = "Not Scheduled"])
                       = { id \in IDs(df) : id \notin DOMAIN interview_scheduled }
        IN /\ FilterMatches /\ FilterMatches'
           /\ (last'.op = "schedule" /\ ops' = ops + 1) =>
                 /\ last'.id \notin DOMAIN isch
                 /\ DOMAIN isch' = (DOMAIN isch) \cup {last'.id}
                 /\ isch'[last'.id] \in InterviewDates
                 /\ DictDel(isch', last'.id) = isch
           /\ (last'.op = "cancel" /\ ops' = ops + 1) =>
                 /\ last'.id \in DOMAIN isch
                 /\ DOMAIN isch' = (DOMAIN isch) \ {last'.id}
                 /\ DictSet(isch', last'.id, isch[last'.id]) = isch
           /\ \A id \in (DOMAIN isch) \cap (DOMAIN isch') : isch'[id] = isch[id]
           /\ DOMAIN isch' # DOMAIN isch =>
                 last'.op \in {"schedule", "cancel", "upload_new"} ]_vars

\* C33 witness: an interview was scheduled for a candidate and then
\* cancelled, while another candidate keeps its own date.
C33_Witness ==
    /\ prev.op = "schedule" /\ last.op = "cancel" /\ last.id = prev.id
    /\ last.id \notin DOMAIN interview_scheduled
    /\ DOMAIN interview_scheduled # {}

====
